---- MODULE Spec2Model ----
(***************************************************************************)
(* Model of demo.py: the Flask handler translate() behind POST /translate *)
(* and the translation client translate_text() it calls.  A request is    *)
(* handled in two steps, split where the handler blocks on the outbound   *)
(* chat-completion call: Receive runs the handler up to that call (or to  *)
(* its early return / exception), UpstreamReply and UpstreamFail finish   *)
(* it with what the chat-completion API did.                              *)
(***************************************************************************)
EXTENDS Integers, Sequences, FiniteSets, TLC

VARIABLES client, debug, pc, body, outbound, reply, response, unhandled, log

vars == <<client, debug, pc, body, outbound, reply, response, unhandled, log>>

(* ------------------------------ bounds --------------------------------- *)

\* longest request text and longest upstream content that is enumerated
MaxLen == 3
\* number of requests the server may be handling at the same time
NSlots == 2

Slots == 1..NSlots

(* ------------------------- strings and values -------------------------- *)

\* A Python str is a sequence of characters.  The literal pieces of the
\* prompt template are kept as single elements; none of them is whitespace.
Whitespace == {" ", "\n"}

RECURSIVE SeqsUpTo(_, _)
SeqsUpTo(S, n) ==
    IF n = 0 THEN {<<>>}
    ELSE LET shorter == SeqsUpTo(S, n - 1)
         IN  shorter \cup {Append(s, c) : s \in {t \in shorter : Len(t) = n - 1}, c \in S}

RECURSIVE lstrip(_)
lstrip(s) == IF s # <<>> /\ Head(s) \in Whitespace THEN lstrip(Tail(s)) ELSE s

RECURSIVE rstrip(_)
rstrip(s) ==
    IF s # <<>> /\ s[Len(s)] \in Whitespace THEN rstrip(SubSeq(s, 1, Len(s) - 1)) ELSE s

\* str.strip(): removes leading and trailing whitespace
strip(s) == rstrip(lstrip(s))

\* Python values a JSON body can carry in a field: None (a missing key or
\* JSON null, what dict.get returns), a str, a number.
PyNone == [kind |-> "none", s |-> <<>>, n |-> 0]
Str(s) == [kind |-> "str", s |-> s, n |-> 0]
Num(n) == [kind |-> "num", s |-> <<>>, n |-> n]

\* Python truthiness as used by `not x`
Truthy(v) ==
    CASE v.kind = "none" -> FALSE
      [] v.kind = "str" -> v.s # <<>>
      [] v.kind = "num" -> v.n # 0

\* str(v) as an f-string placeholder formats it
Format(v) ==
    CASE v.kind = "none" -> <<"N", "o", "n", "e">>
      [] v.kind = "str" -> v.s
      [] v.kind = "num" -> <<ToString(v.n)>>

\* whether v has a .strip() method; calling it on anything else raises
\* AttributeError
HasStrip(v) == v.kind = "str"

Sentinel == <<"S", "e", "l", "e", "c", "t", " ", "o", "n", "e">>
English == <<"E", "n", "g", "l", "i", "s", "h">>
French == <<"F", "r", "e", "n", "c", "h">>

(* ------------------------------ inputs --------------------------------- *)

Texts ==
    {Str(s) : s \in SeqsUpTo({" ", "a"}, MaxLen)} \cup {PyNone, Num(0), Num(7)}

Languages ==
    {PyNone, Str(<<>>), Str(Sentinel), Str(English), Str(French), Num(7)}

NonObject(k) ==
    [kind |-> k, source_text |-> PyNone, source_language |-> PyNone,
     target_language |-> PyNone]

Object(st, sl, tl) ==
    [kind |-> "object", source_text |-> st, source_language |-> sl,
     target_language |-> tl]

\* request bodies: not parseable as JSON, JSON null / array / string /
\* number, or a JSON object with the three fields
NonObjectKinds == {"malformed", "null", "array", "string", "number"}

Bodies ==
    {NonObject(k) : k \in NonObjectKinds}
        \cup {Object(st, sl, tl) : st \in Texts, sl \in Languages, tl \in Languages}

\* the narrower inputs used when several requests are in flight together
PairBodies ==
    {NonObject(k) : k \in {"null", "array"}}
        \cup {Object(st, sl, tl) :
                st \in {PyNone, Str(<<>>), Str(<<" ">>), Str(<<"a">>)},
                sl \in {PyNone, Str(Sentinel), Str(English)},
                tl \in {Str(Sentinel), Str(French)}}

\* what the chat-completion API can answer: choices[0].message.content is a
\* str or None
Contents == {Str(s) : s \in SeqsUpTo({" ", "x"}, MaxLen)} \cup {PyNone}

PairContents == {Str(<<"x">>), Str(<<" ", "y">>)}

\* how the call can fail: API unreachable, credential rejected, a response
\* without choices
Failures == {"APIConnectionError", "AuthenticationError", "IndexError"}

(* ------------------------- process-wide state -------------------------- *)

AzureOpenAI ==
    [api_key |-> "", api_version |-> "2024-10-21",
     azure_endpoint |-> "https://demo.openai.azure.com"]

max_tokens == 1000

(* --------------------------- translate_text ---------------------------- *)

system_message(source_language, target_language) ==
    LET sl == Format(source_language)
        tl == Format(target_language)
    IN  <<"\n", "You are a professional translator proficient in translating ">>
        \o sl \o <<" text into ">> \o tl \o <<".", "\n">>
        \o <<"Your task is to provide an accurate and natural-sounding translation of the given ">>
        \o sl \o <<" text into ">> \o tl \o <<".", "\n", "\n", "Instructions:", "\n">>
        \o <<"- Only provide the translated text.", "\n">>
        \o <<"- Do not include the original ">> \o sl \o <<" text.", "\n">>
        \o <<"- Do not add any explanations, notes, or extra information.", "\n">>
        \o <<"- Do not start or end the response with phrases like 'Translation:', 'Here is the translation:', etc.", "\n">>
        \o <<"- Ensure proper grammar, spelling, and punctuation in ">> \o tl \o <<".", "\n">>
        \o <<"- Preserve the original meaning and tone of the text.", "\n", "\n">>
        \o <<"If the text contains idioms, expressions, or cultural references, translate them appropriately so they make sense to a native ">>
        \o tl \o <<" speaker.", "\n">>

user_content_unstripped(user_input) == user_input.s

\* the content of the user message
user_content(user_input) == strip(user_input.s)

messages(text, source_language, target_language) ==
    << [role |-> "system",
        content |-> strip(system_message(source_language, target_language))],
       [role |-> "user", content |-> user_content(text)] >>

\* the request client.chat.completions.create sends, to the endpoint and
\* with the credential of the process-wide client
create_request(text, source_language, target_language) ==
    [azure_endpoint |-> client.azure_endpoint,
     api_version |-> client.api_version,
     api_key |-> client.api_key,
     model |-> "gpt-4",
     messages |-> messages(text, source_language, target_language),
     max_tokens |-> max_tokens,
     temperature |-> "0.3"]

translate_text_result_unstripped(content) == content.s

\* the value translate_text returns for the first choice's content
translate_text_result(content) == strip(content.s)

(* ------------------------------ responses ------------------------------ *)

NoResponse == [status |-> 0, ctype |-> "none", body |-> [none |-> TRUE]]

jsonify(status, b) == [status |-> status, ctype |-> "json", body |-> b]

\* what Flask answers when get_json() cannot parse the body: werkzeug's
\* BadRequest page
BadRequestPage ==
    [status |-> 400, ctype |-> "html", body |-> [page |-> "Bad Request"]]

\* what the server answers when an exception leaves the view function: the
\* debugger's traceback page when started by app.run(debug=True), the bare
\* Internal Server Error page otherwise
ServerErrorPage(exception) ==
    [status |-> 500, ctype |-> "html",
     body |-> IF debug
              THEN [page |-> "Traceback", exception |-> exception]
              ELSE [page |-> "Internal Server Error", exception |-> ""]]

(* ------------------------------ translate ------------------------------ *)

ValidationError_fields_first(source_text, source_language, target_language) ==
    IF ~Truthy(source_text) \/ ~Truthy(source_language) \/ ~Truthy(target_language)
    THEN [error |-> "Invalid input parameters", log |-> <<"fields_fail">>]
    ELSE IF source_language = Str(Sentinel) \/ target_language = Str(Sentinel)
    THEN [error |-> "Please select both source and target languages",
          log |-> <<"fields_ok", "sentinel_fail">>]
    ELSE [error |-> "", log |-> <<"fields_ok", "sentinel_ok">>]

\* the two checks of the fields, in the handler's order; error "" when both
\* pass
ValidationError(source_text, source_language, target_language) ==
    IF source_language = Str(Sentinel) \/ target_language = Str(Sentinel)
    THEN [error |-> "Please select both source and target languages",
          log |-> <<"sentinel_fail">>]
    ELSE IF ~Truthy(source_text) \/ ~Truthy(source_language) \/ ~Truthy(target_language)
    THEN [error |-> "Invalid input parameters", log |-> <<"sentinel_ok", "fields_fail">>]
    ELSE [error |-> "", log |-> <<"sentinel_ok", "fields_ok">>]

Returned(resp, events) ==
    [pc |-> "done", response |-> resp, outbound |-> <<>>, unhandled |-> FALSE,
     log |-> events]

Raised(exception, events) ==
    [pc |-> "done", response |-> ServerErrorPage(exception), outbound |-> <<>>,
     unhandled |-> TRUE, log |-> Append(events, "raise")]

Calling(request, events) ==
    [pc |-> "calling", response |-> NoResponse, outbound |-> <<request>>,
     unhandled |-> FALSE, log |-> Append(events, "call")]

\* translate_text up to the outbound call: building the messages raises
\* AttributeError when text has no strip()
translate_text_begin(text, source_language, target_language, events) ==
    IF ~HasStrip(text)
    THEN Raised("AttributeError", events)
    ELSE Calling(create_request(text, source_language, target_language), events)

translate_begin_call_first(b) ==
    IF b.kind = "malformed"
    THEN [pc |-> "done", response |-> BadRequestPage, outbound |-> <<>>,
          unhandled |-> FALSE, log |-> <<"json_fail", "return_400">>]
    ELSE IF b.kind = "null"
    THEN Returned(jsonify(400, [error |-> "Invalid JSON input"]),
                  <<"json_fail", "return_400">>)
    ELSE IF b.kind # "object"
    THEN Raised("AttributeError", <<"json_ok">>)
    ELSE LET v == ValidationError(b.source_text, b.source_language, b.target_language)
         IN  IF v.log[1] = "sentinel_fail"
             THEN Returned(jsonify(400, [error |-> v.error]),
                           <<"json_ok">> \o v.log \o <<"return_400">>)
             ELSE IF ~HasStrip(b.source_text)
             THEN Raised("AttributeError", <<"json_ok", "sentinel_ok">>)
             ELSE IF v.error # ""
             THEN [pc |-> "done",
                   response |-> jsonify(400, [error |-> v.error]),
                   outbound |-> <<create_request(b.source_text, b.source_language,
                                                 b.target_language)>>,
                   unhandled |-> FALSE,
                   log |-> <<"json_ok", "sentinel_ok", "call", "fields_fail",
                             "return_400">>]
             ELSE Calling(create_request(b.source_text, b.source_language,
                                         b.target_language),
                          <<"json_ok", "sentinel_ok", "fields_ok">>)

\* translate() from its first line to the outbound call, or to its return
\* or exception when it does not get that far
translate_begin(b) ==
    IF b.kind = "malformed"
    THEN [pc |-> "done", response |-> BadRequestPage, outbound |-> <<>>,
          unhandled |-> FALSE, log |-> <<"json_fail", "return_400">>]
    ELSE IF b.kind = "null"
    THEN Returned(jsonify(400, [error |-> "Invalid JSON input"]),
                  <<"json_fail", "return_400">>)
    ELSE IF b.kind # "object"
    THEN Raised("AttributeError", <<"json_ok">>)
    ELSE LET v == ValidationError(b.source_text, b.source_language, b.target_language)
         IN  IF v.error # ""
             THEN Returned(jsonify(400, [error |-> v.error]),
                           <<"json_ok">> \o v.log \o <<"return_400">>)
             ELSE translate_text_begin(b.source_text, b.source_language,
                                       b.target_language, <<"json_ok">> \o v.log)

original_stripped(b) == Str(strip(b.source_text.s))

\* the text echoed as original
original(b) == b.source_text

success_body_shared(r, b, translated) ==
    [original |-> IF \E q \in Slots : q # r /\ pc[q] = "calling"
                  THEN LET q == CHOOSE q \in Slots : q # r /\ pc[q] = "calling"
                       IN  body[q].source_text
                  ELSE original(b),
     translated |-> Str(translated),
     source_language |-> b.source_language,
     target_language |-> b.target_language]

\* the JSON body of the 200 response request r gets
success_body(r, b, translated) ==
    [original |-> original(b),
     translated |-> Str(translated),
     source_language |-> b.source_language,
     target_language |-> b.target_language]

(* ------------------------------- actions ------------------------------- *)

Init ==
    /\ client = AzureOpenAI
    /\ debug \in BOOLEAN
    /\ pc = [r \in Slots |-> "idle"]
    /\ body = [r \in Slots |-> NonObject("null")]
    /\ outbound = [r \in Slots |-> <<>>]
    /\ reply = [r \in Slots |-> [kind |-> "none", content |-> PyNone, failure |-> ""]]
    /\ response = [r \in Slots |-> NoResponse]
    /\ unhandled = [r \in Slots |-> FALSE]
    /\ log = [r \in Slots |-> <<>>]

\* a POST /translate request with body b arrives and the handler runs up to
\* the outbound call
Receive(r, b) ==
    /\ pc[r] = "idle"
    /\ LET t == translate_begin(b)
       IN  /\ pc' = [pc EXCEPT ![r] = t.pc]
           /\ body' = [body EXCEPT ![r] = b]
           /\ outbound' = [outbound EXCEPT ![r] = t.outbound]
           /\ response' = [response EXCEPT ![r] = t.response]
           /\ unhandled' = [unhandled EXCEPT ![r] = t.unhandled]
           /\ log' = [log EXCEPT ![r] = t.log]
    /\ UNCHANGED <<client, debug, reply>>

\* the chat-completion API answers with a first choice whose content is c;
\* translate_text strips and returns it and the handler builds the 200 body
UpstreamReply(r, c) ==
    /\ pc[r] = "calling"
    /\ reply' = [reply EXCEPT ![r] = [kind |-> "content", content |-> c, failure |-> ""]]
    /\ pc' = [pc EXCEPT ![r] = "done"]
    /\ IF HasStrip(c)
       THEN /\ response' = [response EXCEPT ![r] =
                   jsonify(200, success_body(r, body[r], translate_text_result(c)))]
            /\ unhandled' = unhandled
            /\ log' = [log EXCEPT ![r] = @ \o <<"reply", "return_200">>]
       ELSE /\ response' = [response EXCEPT ![r] = ServerErrorPage("AttributeError")]
            /\ unhandled' = [unhandled EXCEPT ![r] = TRUE]
            /\ log' = [log EXCEPT ![r] = @ \o <<"reply", "raise">>]
    /\ UNCHANGED <<client, debug, body, outbound>>

\* the outbound call raises f; nothing in translate_text or translate
\* catches it
UpstreamFail(r, f) ==
    /\ pc[r] = "calling"
    /\ reply' = [reply EXCEPT ![r] = [kind |-> "failure", content |-> PyNone, failure |-> f]]
    /\ pc' = [pc EXCEPT ![r] = "done"]
    /\ response' = [response EXCEPT ![r] = ServerErrorPage(f)]
    /\ unhandled' = [unhandled EXCEPT ![r] = TRUE]
    /\ log' = [log EXCEPT ![r] = @ \o <<"fail", "raise">>]
    /\ UNCHANGED <<client, debug, body, outbound>>

\* the response has been sent; nothing of the request is kept
Finish(r) ==
    /\ pc[r] = "done"
    /\ pc' = [pc EXCEPT ![r] = "idle"]
    /\ body' = [body EXCEPT ![r] = NonObject("null")]
    /\ outbound' = [outbound EXCEPT ![r] = <<>>]
    /\ reply' = [reply EXCEPT ![r] = [kind |-> "none", content |-> PyNone, failure |-> ""]]
    /\ response' = [response EXCEPT ![r] = NoResponse]
    /\ unhandled' = [unhandled EXCEPT ![r] = FALSE]
    /\ log' = [log EXCEPT ![r] = <<>>]
    /\ UNCHANGED <<client, debug>>

\* one request at a time, every input
Next ==
    \/ \E b \in Bodies : Receive(1, b)
    \/ \E c \in Contents : UpstreamReply(1, c)
    \/ \E f \in Failures : UpstreamFail(1, f)
    \/ Finish(1)

Spec == Init /\ [][Next]_vars

\* several requests in flight together
NextPair ==
    \/ \E r \in Slots, b \in PairBodies : Receive(r, b)
    \/ \E r \in Slots, c \in PairContents : UpstreamReply(r, c)
    \/ \E r \in Slots, f \in {"APIConnectionError"} : UpstreamFail(r, f)
    \/ \E r \in Slots : Finish(r)

SpecPair == Init /\ [][NextPair]_vars

TypeOK ==
    /\ client = AzureOpenAI
    /\ \A r \in Slots :
        /\ pc[r] \in {"idle", "calling", "done"}
        /\ Len(outbound[r]) <= 1

(* ------------------------- vocabulary of the claims -------------------- *)

\* resp is a JSON response with the given status whose body is {error: msg}
IsError(resp, status, msg) ==
    /\ resp.status = status
    /\ resp.ctype = "json"
    /\ DOMAIN resp.body = {"error"}
    /\ resp.body.error = msg

\* t is s without its leading and trailing whitespace, said without strip
IsTrimOf(t, s) ==
    /\ t = <<>> \/ (t[1] \notin Whitespace /\ t[Len(t)] \notin Whitespace)
    /\ \E i \in 1..(Len(s) + 1) :
        /\ i + Len(t) - 1 <= Len(s)
        /\ \A k \in 1..Len(t) : t[k] = s[i + k - 1]
        /\ \A k \in 1..Len(s) : (k < i \/ k > i + Len(t) - 1) => s[k] \in Whitespace

HasSentinel(b) ==
    b.source_language = Str(Sentinel) \/ b.target_language = Str(Sentinel)

\* a str that is empty or only whitespace
Blank(v) == v.kind = "str" /\ \A k \in 1..Len(v.s) : v.s[k] \in Whitespace

\* a field that is missing or empty
Empty(v) == v = PyNone \/ v = Str(<<>>) \/ v = Num(0)

\* the request is a JSON object that passes the handler's three checks
PassesValidation(b) ==
    /\ b.kind = "object"
    /\ ~HasSentinel(b)
    /\ ~Empty(b.source_text) /\ ~Empty(b.source_language) /\ ~Empty(b.target_language)

Events(r) == {log[r][i] : i \in 1..Len(log[r])}

(* -------------------------------- claims ------------------------------- *)

\* at most one outbound call per request, whatever the upstream does
AtMostOneCall == \A r \in Slots : Len(outbound[r]) <= 1

\* C1: a 400 response is decided before any outbound call: no request has
\* both a 400 response and an outbound call, nothing returns 400 after the
\* call, and the call comes only after the JSON check, the sentinel check
\* and the missing/empty check have passed, in that order.
C1_ValidationBeforeCall ==
    \A r \in Slots :
        /\ response[r].status = 400 => outbound[r] = <<>> /\ "call" \notin Events(r)
        /\ \A i, j \in 1..Len(log[r]) :
              (log[r][i] = "call" /\ i <= j) => log[r][j] # "return_400"
        /\ \A i \in 1..Len(log[r]) :
              log[r][i] = "call" =>
                  /\ i = 4
                  /\ SubSeq(log[r], 1, 3) = <<"json_ok", "sentinel_ok", "fields_ok">>
        /\ outbound[r] # <<>> => PassesValidation(body[r]) /\ "call" \in Events(r)

\* a request whose last check failed got its 400 without any call
C1_Witness ==
    /\ pc[1] = "done"
    /\ response[1].status = 400
    /\ log[1] = <<"json_ok", "sentinel_ok", "fields_fail", "return_400">>
    /\ body[1].source_text = Str(<<>>)
    /\ outbound[1] = <<>>

\* C2: a JSON-object request that reaches the missing/empty check (no
\* sentinel language) and has no target_language, or whose source_text is
\* empty or only whitespace, gets 400 {error: "Invalid input parameters"} and
\* makes no outbound call.
C2_BlankTextRejected ==
    \A r \in Slots :
        (/\ pc[r] # "idle"
         /\ body[r].kind = "object"
         /\ ~HasSentinel(body[r])
         /\ (body[r].target_language = PyNone \/ Blank(body[r].source_text)))
        => /\ pc[r] = "done"
           /\ IsError(response[r], 400, "Invalid input parameters")
           /\ outbound[r] = <<>>

\* C3: a body that is not valid JSON, or is JSON but not an object, gets 400
\* {error: "Invalid JSON input"} and makes no outbound call.
C3_NonObjectRejected ==
    \A r \in Slots :
        (pc[r] # "idle" /\ body[r].kind \in NonObjectKinds)
        => /\ pc[r] = "done"
           /\ IsError(response[r], 400, "Invalid JSON input")
           /\ outbound[r] = <<>>

\* C4: a JSON-object request with the sentinel "Select one" as either
\* language gets 400 {error: "Please select both source and target
\* languages"} without any outbound call, whatever the text and the other
\* language are.
C4_SentinelRejected ==
    \A r \in Slots :
        (pc[r] # "idle" /\ body[r].kind = "object" /\ HasSentinel(body[r]))
        => /\ pc[r] = "done"
           /\ IsError(response[r], 400, "Please select both source and target languages")
           /\ outbound[r] = <<>>
           /\ "call" \notin Events(r)

\* the sentinel as target language, the text missing and the source
\* language empty
C4_Witness ==
    /\ pc[1] = "done"
    /\ body[1] = Object(PyNone, Str(<<>>), Str(Sentinel))
    /\ response[1].status = 400

\* C5: when the outbound call fails, the failure is caught before it leaves
\* the handler and the request ends with a 5xx response whose body is
\* generic: no stack trace and no upstream error detail.
C5_UpstreamFailureHandled ==
    \A r \in Slots :
        (pc[r] = "done" /\ reply[r].kind = "failure")
        => /\ response[r].status \in 500..599
           /\ ~unhandled[r]
           /\ response[r].body.page # "Traceback"

\* C6: a JSON-object request with non-empty fields and no sentinel, whose
\* translation call returns, gets 200 with exactly the fields original,
\* translated, source_language and target_language: the submitted text
\* unchanged, the value translate_text returned, the submitted languages.
C6_SuccessBody ==
    \A r \in Slots :
        (/\ pc[r] = "done"
         /\ PassesValidation(body[r])
         /\ reply[r].kind = "content"
         /\ ~unhandled[r])
        => /\ response[r].status = 200
           /\ response[r].ctype = "json"
           /\ DOMAIN response[r].body =
                  {"original", "translated", "source_language", "target_language"}
           /\ response[r].body.original = body[r].source_text
           /\ response[r].body.translated.kind = "str"
           /\ IsTrimOf(response[r].body.translated.s, reply[r].content.s)
           /\ response[r].body.source_language = body[r].source_language
           /\ response[r].body.target_language = body[r].target_language

\* a 200 response to a text with whitespace around it
C6_Witness ==
    /\ pc[1] = "done"
    /\ response[1].status = 200
    /\ body[1].source_text = Str(<<" ", "a", " ">>)
    /\ reply[1].content = Str(<<" ", "x">>)

\* C7: a request makes exactly one outbound call when it passes validation
\* and none otherwise, whether the call succeeds or fails.
C7_ExactlyOneCall ==
    \A r \in Slots :
        pc[r] # "idle"
        => Len(outbound[r]) = IF PassesValidation(body[r]) THEN 1 ELSE 0

\* C8: whenever the upstream answers, whatever the content (empty,
\* whitespace-only and absent included), translate_text returns a non-empty
\* string without leading or trailing whitespace, the trimmed content.
C8_NonEmptyResult ==
    \A r \in Slots :
        (pc[r] = "done" /\ reply[r].kind = "content")
        => /\ response[r].status = 200
           /\ response[r].body.translated.kind = "str"
           /\ response[r].body.translated.s # <<>>
           /\ IsTrimOf(response[r].body.translated.s, reply[r].content.s)

\* C8 as amended: when the content is a string, translate_text returns it
\* trimmed, without leading or trailing whitespace, and the result is
\* non-empty exactly when the content has a non-whitespace character; when
\* the content is absent, translate_text raises and returns nothing.
C8_TrimmedResult ==
    \A r \in Slots :
        (pc[r] = "done" /\ reply[r].kind = "content")
        => IF reply[r].content.kind = "str"
           THEN /\ response[r].status = 200
                /\ response[r].body.translated.kind = "str"
                /\ IsTrimOf(response[r].body.translated.s, reply[r].content.s)
                /\ response[r].body.translated.s # <<>> <=> ~Blank(reply[r].content)
           ELSE unhandled[r] /\ response[r].status = 500

\* a whitespace-only content returned as the empty string
C8_Witness ==
    /\ pc[1] = "done"
    /\ reply[1].kind = "content"
    /\ reply[1].content = Str(<<" ", " ">>)
    /\ response[1].status = 200
    /\ response[1].body.translated = Str(<<>>)

\* C9: two requests with the same body and the same upstream reply get the
\* same status and body, whatever else was handled before or is in flight,
\* and the process-wide client configuration never changes.
C9_Deterministic ==
    /\ client = AzureOpenAI
    /\ \A r, q \in Slots :
          (/\ pc[r] = "done" /\ pc[q] = "done"
           /\ body[r] = body[q]
           /\ reply[r] = reply[q])
          => response[r] = response[q]

\* two finished requests with the same body and reply, both translated
C9_Witness ==
    /\ pc[1] = "done" /\ pc[2] = "done"
    /\ body[1] = body[2]
    /\ reply[1] = reply[2]
    /\ response[1].status = 200

\* C10: every chat-completion request carries exactly two messages, the
\* system message with the trimmed instruction and then the user message
\* with the trimmed text; the untrimmed text is never sent, and the text
\* echoed as original differs from the user message by leading and trailing
\* whitespace only.
C10_TwoTrimmedMessages ==
    \A r \in Slots :
        \A k \in 1..Len(outbound[r]) :
            LET m == outbound[r][k].messages
            IN  /\ Len(m) = 2
                /\ m[1].role = "system"
                /\ m[2].role = "user"
                /\ IsTrimOf(m[1].content,
                            system_message(body[r].source_language,
                                           body[r].target_language))
                /\ body[r].source_text.kind = "str"
                /\ IsTrimOf(m[2].content, body[r].source_text.s)
                /\ response[r].status = 200
                       => IsTrimOf(m[2].content, response[r].body.original.s)

\* a translated request whose text had whitespace around it
C10_Witness ==
    /\ pc[1] = "done"
    /\ response[1].status = 200
    /\ response[1].body.original = Str(<<" ", "a", " ">>)
    /\ outbound[1][1].messages[2].content = <<"a">>
====
